---------------------------- MODULE Spec2Model ----------------------------
(***************************************************************************)
(* Model of populate_specs_v2.py: the rule-based specification extractor   *)
(* (EnhancedSpecExtractor) and the loop of process_excel_file that drives  *)
(* it.  Text is a sequence of characters, a character being a one-letter   *)
(* string; the characters the source writes outside ASCII are named by     *)
(* their code points.  Python's re is modelled by a backtracking matcher   *)
(* over the patterns written as syntax trees.                              *)
(***************************************************************************)
EXTENDS Integers, Sequences, FiniteSets, TLC

(***************************************************************************)
(* Characters and the str methods the source uses.                         *)
(***************************************************************************)
Chars(s) == [i \in 1..Len(s) |-> SubSeq(s, i, i)]

LowerLetters == Chars("abcdefghijklmnopqrstuvwxyz")
UpperLetters == Chars("ABCDEFGHIJKLMNOPQRSTUVWXYZ")
Lowers == {LowerLetters[i] : i \in 1..Len(LowerLetters)}
Uppers == {UpperLetters[i] : i \in 1..Len(UpperLetters)}
Digits == {"0", "1", "2", "3", "4", "5", "6", "7", "8", "9"}
Spaces == {" ", "\t", "\n"}
Underscore == "_"
TIMES == "U+00D7"
DEGREE == "U+00B0"
BULLET == "U+2022"
BLACKCIRCLE == "U+25CF"
WHITECIRCLE == "U+25CB"
BLACKSQUARE == "U+25AA"
WHITESQUARE == "U+25AB"
BulletGlyphs == {BULLET, BLACKCIRCLE, WHITECIRCLE, BLACKSQUARE, WHITESQUARE}

isupper(c) == c \in Uppers
isdigit(c) == c \in Digits
isalnum(c) == c \in Lowers \cup Uppers \cup Digits
isspace(c) == c \in Spaces
IsWordChar(c) == isalnum(c) \/ c = Underscore

LowerChar(c) ==
    IF c \in Uppers
    THEN LowerLetters[CHOOSE i \in 1..Len(UpperLetters) : UpperLetters[i] = c]
    ELSE c
UpperChar(c) ==
    IF c \in Lowers
    THEN UpperLetters[CHOOSE i \in 1..Len(LowerLetters) : LowerLetters[i] = c]
    ELSE c

\* str.lower(), str.upper()
lower(s) == [i \in 1..Len(s) |-> LowerChar(s[i])]
upper(s) == [i \in 1..Len(s) |-> UpperChar(s[i])]

\* str.title(): a letter is upper-cased after a character that is no letter,
\* and lower-cased after a letter.
title(s) ==
    [i \in 1..Len(s) |->
        IF i > 1 /\ s[i - 1] \in Lowers \cup Uppers
        THEN LowerChar(s[i])
        ELSE UpperChar(s[i])]

\* The first and last positions of s that hold a character outside cs
\* (Len(s) + 1 and 0 when there is none).
FirstNotIn(s, cs) ==
    IF \E i \in 1..Len(s) : s[i] \notin cs
    THEN CHOOSE i \in 1..Len(s) : s[i] \notin cs /\ \A j \in 1..(i - 1) : s[j] \in cs
    ELSE Len(s) + 1
LastNotIn(s, cs) ==
    IF \E i \in 1..Len(s) : s[i] \notin cs
    THEN CHOOSE i \in 1..Len(s) : s[i] \notin cs /\ \A j \in (i + 1)..Len(s) : s[j] \in cs
    ELSE 0

\* str.strip(), str.rstrip(chars)
rstripChars(s, cs) == SubSeq(s, 1, LastNotIn(s, cs))
strip(s) == SubSeq(s, FirstNotIn(s, Spaces), LastNotIn(s, Spaces))

\* str.count(c)
count(s, c) == Cardinality({i \in 1..Len(s) : s[i] = c})

\* str.split(): the maximal runs of characters that are not whitespace.
RECURSIVE SplitFrom(_, _)
SplitFrom(s, i) ==
    LET a == CHOOSE a \in i..(Len(s) + 1) :
                 /\ a = Len(s) + 1 \/ ~isspace(s[a])
                 /\ \A k \in i..(a - 1) : isspace(s[k])
    IN IF a > Len(s) THEN <<>>
       ELSE LET b == CHOOSE b \in (a + 1)..(Len(s) + 1) :
                         /\ b = Len(s) + 1 \/ isspace(s[b])
                         /\ \A k \in a..(b - 1) : ~isspace(s[k])
            IN <<SubSeq(s, a, b - 1)>> \o SplitFrom(s, b)
split(s) == SplitFrom(s, 1)

\* ' '.join(words)
RECURSIVE join(_)
join(words) ==
    IF Len(words) = 0 THEN <<>>
    ELSE IF Len(words) = 1 THEN words[1]
    ELSE words[1] \o <<" ">> \o join(Tail(words))

\* Python's None and pandas' NaN (a missing cell); neither is a text.
None == <<"None">>
NaN == <<"NaN">>
notna(v) == v # NaN /\ v # None

(***************************************************************************)
(* Python's re.  A pattern is a syntax tree.  Matches(x, s, i, caps) is    *)
(* the sequence of the ways node x matches s at position i, in the order   *)
(* the backtracking matcher tries them: alternatives in order, a greedy    *)
(* repetition longest first, a lazy one shortest first.  The first way of  *)
(* the whole pattern is the match re returns.  A way is [pos, caps]: the   *)
(* position after the match and the groups, caps[g] = <<start, end>> of    *)
(* group g (<<0, 0>>: the group took no part), group 0 the whole match.    *)
(* The source repeats only single characters ({m,n}, *, +) and makes       *)
(* larger parts optional (?): Rep covers these two shapes.                 *)
(***************************************************************************)
Lit(str) == [t |-> "lit", s |-> Chars(str)]
Ch(c) == [t |-> "set", cs |-> {c}]
Set(cs) == [t |-> "set", cs |-> cs]
NSet(cs) == [t |-> "nset", cs |-> cs]
Cat(xs) == [t |-> "cat", xs |-> xs]
Alt(xs) == [t |-> "alt", xs |-> xs]
Rep(x, lo, hi, greedy) == [t |-> "rep", x |-> x, lo |-> lo, hi |-> hi, greedy |-> greedy]
Opt(x) == [t |-> "opt", x |-> x]
Star(x) == Rep(x, 0, -1, TRUE)
Plus(x) == Rep(x, 1, -1, TRUE)
Grp(n, x) == [t |-> "grp", n |-> n, x |-> x]
WordBoundary == [t |-> "wb"]
EndOfText == [t |-> "end"]
NotAhead(x) == [t |-> "nla", x |-> x]
\* \d, \s
D == Set(Digits)
S == Set(Spaces)

\* Whether character c is in class cs, under re.IGNORECASE when ic.
InClass(c, cs, ic) == c \in cs \/ (ic /\ (LowerChar(c) \in cs \/ UpperChar(c) \in cs))

\* Whether the character class node x takes character c.
Takes(x, c, ic) == IF x.t = "set" THEN InClass(c, x.cs, ic) ELSE ~InClass(c, x.cs, ic)

\* \b at position i of s: between a word character and what is none.
AtWordBoundary(s, i) ==
    LET before == i > 1 /\ IsWordChar(s[i - 1])
        after == i <= Len(s) /\ IsWordChar(s[i])
    IN before # after

\* $ at position i of s: the end, or before a newline that ends s.
AtEnd(s, i) == i = Len(s) + 1 \/ (i = Len(s) /\ s[i] = "\n")

LitAt(s, i, l, ic) ==
    /\ i + Len(l) - 1 <= Len(s)
    /\ \A k \in 1..Len(l) : InClass(s[i + k - 1], {l[k]}, ic)

\* The longest run, of at most hi characters (-1: unbounded), that class x
\* takes from position i of s.
RunLength(x, s, i, hi, ic) ==
    LET most == IF hi = -1 \/ hi > Len(s) - i + 1 THEN Len(s) - i + 1 ELSE hi
    IN CHOOSE n \in 0..most :
           /\ \A j \in 0..(n - 1) : Takes(x, s[i + j], ic)
           /\ n = most \/ ~Takes(x, s[i + n], ic)

RECURSIVE Matches(_, _, _, _, _)
RECURSIVE CatMatches(_, _, _, _, _)
RECURSIVE EachMatches(_, _, _, _, _, _)
RECURSIVE AltMatches(_, _, _, _, _, _)
Matches(x, s, i, caps, ic) ==
    LET here == <<[pos |-> i, caps |-> caps]>>
    IN CASE x.t = "lit" ->
              IF LitAt(s, i, x.s, ic) THEN <<[pos |-> i + Len(x.s), caps |-> caps]>> ELSE <<>>
         [] x.t \in {"set", "nset"} ->
              IF i <= Len(s) /\ Takes(x, s[i], ic)
              THEN <<[pos |-> i + 1, caps |-> caps]>> ELSE <<>>
         [] x.t = "cat" -> CatMatches(x.xs, 1, here, s, ic)
         [] x.t = "alt" -> AltMatches(x.xs, 1, s, i, caps, ic)
         [] x.t = "rep" ->
              LET n == RunLength(x.x, s, i, x.hi, ic)
              IN IF n < x.lo THEN <<>>
                 ELSE [j \in 1..(n - x.lo + 1) |->
                          [pos |-> IF x.greedy THEN i + n - (j - 1) ELSE i + x.lo + (j - 1),
                           caps |-> caps]]
         [] x.t = "opt" -> Matches(x.x, s, i, caps, ic) \o here
         [] x.t = "grp" ->
              LET ways == Matches(x.x, s, i, caps, ic)
              IN [j \in 1..Len(ways) |->
                     [pos |-> ways[j].pos,
                      caps |-> [ways[j].caps EXCEPT ![x.n] = <<i, ways[j].pos>>]]]
         [] x.t = "wb" -> IF AtWordBoundary(s, i) THEN here ELSE <<>>
         [] x.t = "end" -> IF AtEnd(s, i) THEN here ELSE <<>>
         [] x.t = "nla" -> IF Len(Matches(x.x, s, i, caps, ic)) > 0 THEN <<>> ELSE here
\* The ways xs[k], xs[k+1], ... match in sequence from each of the ways so far.
CatMatches(xs, k, ways, s, ic) ==
    IF k > Len(xs) \/ Len(ways) = 0 THEN ways
    ELSE CatMatches(xs, k + 1, EachMatches(xs[k], ways, 1, Len(ways), s, ic), s, ic)
\* The ways x matches from ways[lo], ..., ways[hi], in that order.
EachMatches(x, ways, lo, hi, s, ic) ==
    IF lo > hi THEN <<>>
    ELSE IF lo = hi THEN Matches(x, s, ways[lo].pos, ways[lo].caps, ic)
    ELSE LET mid == (lo + hi) \div 2
         IN EachMatches(x, ways, lo, mid, s, ic) \o EachMatches(x, ways, mid + 1, hi, s, ic)
\* The ways of the alternatives xs[k], xs[k+1], ..., in that order.
AltMatches(xs, k, s, i, caps, ic) ==
    IF k > Len(xs) THEN <<>>
    ELSE Matches(xs[k], s, i, caps, ic) \o AltMatches(xs, k + 1, s, i, caps, ic)

\* The match object of pattern anchored at position i of s.
NoMatch == [ok |-> FALSE, s |-> <<>>, n |-> 0, start |-> 0, end |-> 0, caps |-> <<>>]
MatchObject(pattern, s, i, ways) ==
    IF Len(ways) > 0
    THEN [ok |-> TRUE, s |-> s, n |-> pattern.ngroups, start |-> i, end |-> ways[1].pos,
          caps |-> ways[1].caps]
    ELSE NoMatch
MatchAt(pattern, s, i, ic) ==
    MatchObject(pattern, s, i,
                Matches(pattern.re, s, i, [g \in 1..pattern.ngroups |-> <<0, 0>>], ic))

\* Of the match objects at the positions of ms, the one at the leftmost
\* position that has a match.
Leftmost(ms) ==
    IF \E j \in DOMAIN ms : ms[j].ok
    THEN ms[CHOOSE j \in DOMAIN ms : ms[j].ok /\ \A h \in DOMAIN ms : ms[h].ok => j <= h]
    ELSE NoMatch

\* re.search from position i on.
SearchFrom(pattern, s, i, ic) ==
    Leftmost([j \in i..(Len(s) + 1) |-> MatchAt(pattern, s, j, ic)])
re_search(pattern, s, ic) == SearchFrom(pattern, s, 1, ic)

\* match.group(n), match.groups()
group(m, n) ==
    IF m.caps[n][1] = 0 THEN None ELSE SubSeq(m.s, m.caps[n][1], m.caps[n][2] - 1)
groups(m) == [n \in 1..m.n |-> group(m, n)]

\* re.findall for a pattern of one group: group 1 of the successive matches,
\* each search starting where the last match ended.
RECURSIVE FindAllFrom(_, _, _, _)
\* Match m and the matches after it.
FindAllAfter(pattern, s, m, ic) ==
    IF ~m.ok THEN <<>>
    ELSE <<group(m, 1)>>
         \o FindAllFrom(pattern, s, IF m.end = m.start THEN m.end + 1 ELSE m.end, ic)
FindAllFrom(pattern, s, i, ic) == FindAllAfter(pattern, s, SearchFrom(pattern, s, i, ic), ic)
re_findall(pattern, s, ic) == FindAllFrom(pattern, s, 1, ic)

\* re.sub(pattern, '', s) for a pattern that matches no empty string: s
\* without the successive matches of pattern.
RECURSIVE SubFrom(_, _, _, _)
\* The text from position i on without match m and the matches after it.
SubAfter(pattern, s, i, m, ic) ==
    IF ~m.ok THEN SubSeq(s, i, Len(s))
    ELSE SubSeq(s, i, m.start - 1) \o SubFrom(pattern, s, m.end, ic)
SubFrom(pattern, s, i, ic) == SubAfter(pattern, s, i, SearchFrom(pattern, s, i, ic), ic)
re_sub_empty(pattern, s, ic) == SubFrom(pattern, s, 1, ic)

(***************************************************************************)
(* EnhancedSpecExtractor.__init__: self.patterns, an ordered mapping from  *)
(* label to rules, a rule being a pattern and the formatter of its match.  *)
(***************************************************************************)
\* (\d+\.?\d*) as group n
Number(n) == Grp(n, Cat(<<Plus(D), Opt(Ch(".")), Star(D)>>))
\* (\d+) as group n
Integer(n) == Grp(n, Plus(D))
\* ["\']?
Quote == Opt(Set({"\"", "'"}))
\* [xX×]
Times == Set({"x", "X", TIMES})
\* word followed by s?
Plural(str) == Cat(<<Lit(str), Opt(Ch("s"))>>)

DimensionsPattern1 ==
    Cat(<<Number(1), Star(S), Quote, Star(S), Times, Star(S),
          Number(2), Star(S), Quote, Star(S), Times, Star(S),
          Number(3), Star(S), Quote, Star(S),
          Opt(Grp(4, Alt(<<Plural("inche"), Lit("in"), Lit("cm"), Lit("mm"), Ch("\"")>>)))>>)
DimensionsPattern2 ==
    Cat(<<Alt(<<Plural("dimension"), Lit("size")>>), Opt(Ch(":")), Star(S),
          Number(1), Star(S), Times, Star(S), Number(2), Star(S),
          Opt(Cat(<<Times, Star(S), Number(3)>>))>>)
WeightPattern ==
    Cat(<<Number(1), Star(S),
          Grp(2, Alt(<<Plural("lb"), Plural("pound"), Lit("kg"), Plural("kilogram")>>)),
          WordBoundary>>)
CapacityPattern1 ==
    Cat(<<Opt(Cat(<<Lit("capacity"), Opt(Ch(":")), Star(S)>>)),
          Number(1), Star(S), Opt(Cat(<<Ch("-"), Star(S)>>)),
          Grp(2, Alt(<<Lit("cup"), Lit("cups"), Lit("oz"), Plural("ounce"), Lit("ml"),
                       Plural("milliliter"), Lit("liter"), Plural("liter"), Lit("l"),
                       Lit("gallon"), Plural("gallon"), Lit("qt"), Plural("quart")>>)),
          WordBoundary>>)
CapacityPattern2 ==
    Cat(<<Alt(<<Lit("up to"), Lit("upto")>>), Plus(S), Integer(1), Plus(S),
          Grp(2, Alt(<<Lit("cup"), Lit("cups")>>)), WordBoundary>>)
\* A faulty Power pattern, without the \b after the unit.
PowerPatternNoBoundary ==
    Cat(<<Integer(1), Star(S), Grp(2, Alt(<<Lit("watt"), Lit("watts"), Lit("w")>>)),
          NotAhead(Cat(<<Star(S), Lit("max")>>))>>)
PowerPattern ==
    Cat(<<Integer(1), Star(S), Grp(2, Alt(<<Lit("watt"), Lit("watts"), Lit("w")>>)),
          WordBoundary, NotAhead(Cat(<<Star(S), Lit("max")>>))>>)
VoltagePattern ==
    Cat(<<Integer(1), Star(S), Grp(2, Alt(<<Lit("volt"), Lit("volts"), Lit("v")>>)),
          WordBoundary>>)
MaterialPattern1 ==
    Cat(<<Alt(<<Cat(<<Lit("made "), Alt(<<Lit("of"), Lit("from")>>)>>),
                Cat(<<Lit("material"), Opt(Ch(":"))>>)>>),
          Plus(S), Grp(1, Rep(Set(Lowers \cup Spaces), 3, 30, FALSE)),
          Alt(<<Ch("."), Ch(","), EndOfText,
                Cat(<<Plus(S), Alt(<<Lit("with"), Lit("and"), Lit("for")>>)>>)>>)>>)
MaterialPattern2 ==
    Cat(<<WordBoundary,
          Grp(1, Alt(<<Cat(<<Lit("stainless"), Plus(S), Lit("steel")>>),
                       Cat(<<Lit("carbon"), Plus(S), Lit("steel")>>),
                       Lit("aluminum"), Lit("plastic"), Lit("glass"), Lit("ceramic"),
                       Lit("wood"), Lit("silicone"), Lit("rubber")>>)),
          WordBoundary>>)
ColorPattern ==
    Cat(<<Alt(<<Lit("color"), Lit("colour")>>), Opt(Ch(":")), Plus(S),
          Grp(1, Rep(Set(Lowers \cup Spaces), 3, 20, FALSE)),
          Alt(<<Ch("."), Ch(","), EndOfText>>)>>)
TemperaturePattern ==
    Cat(<<Alt(<<Lit("up to"), Cat(<<Lit("max"), Opt(Lit("imum"))>>)>>), Plus(S),
          Integer(1), Star(S), Opt(Alt(<<Plural("degree"), Ch(DEGREE)>>)), Star(S),
          Opt(Grp(2, Alt(<<Lit("f"), Lit("fahrenheit"), Lit("c"), Lit("celsius")>>)))>>)
SettingsPattern ==
    Cat(<<Integer(1), Plus(S), Opt(Cat(<<Lit("precision"), Plus(S)>>)),
          Alt(<<Lit("speed"), Lit("heat"), Lit("temperature")>>), Plus(S), Plural("setting")>>)
PiecesPattern ==
    Cat(<<Integer(1), Star(S), Opt(Cat(<<Ch("-"), Star(S)>>)), Lit("piece")>>)

Rule(re, ngroups, fmt) == [re |-> re, ngroups |-> ngroups, fmt |-> fmt]

\* The labels in the order of the dict, and each label's rules in list order.
Labels ==
    <<"Dimensions", "Weight", "Capacity", "Power", "Voltage", "Material", "Color",
      "Temperature Range", "Settings", "Pieces">>
patterns ==
    ("Dimensions" :> <<Rule(DimensionsPattern1, 4, "dimensions"),
                       Rule(DimensionsPattern2, 3, "dimensions")>>)
    @@ ("Weight" :> <<Rule(WeightPattern, 2, "number unit")>>)
    @@ ("Capacity" :> <<Rule(CapacityPattern1, 2, "number unit"),
                        Rule(CapacityPattern2, 2, "number unit")>>)
    @@ ("Power" :> <<Rule(PowerPattern, 2, "number unit")>>)
    @@ ("Voltage" :> <<Rule(VoltagePattern, 2, "number unit")>>)
    @@ ("Material" :> <<Rule(MaterialPattern1, 1, "clean material"),
                        Rule(MaterialPattern2, 1, "title")>>)
    @@ ("Color" :> <<Rule(ColorPattern, 1, "strip title")>>)
    @@ ("Temperature Range" :> <<Rule(TemperaturePattern, 2, "temperature")>>)
    @@ ("Settings" :> <<Rule(SettingsPattern, 1, "settings")>>)
    @@ ("Pieces" :> <<Rule(PiecesPattern, 1, "pieces")>>)

(***************************************************************************)
(* The formatters.  A formatter returns a text, or Raised when the Python  *)
(* raises (extract_specs_from_text catches it).                            *)
(***************************************************************************)
Raised == <<"Raised">>

\* An f-string field: str() of a group.
fstr(v) == IF v = None THEN Chars("None") ELSE v

\* g.replace('.', '').isdigit()
IsNumeric(g) ==
    /\ \E i \in 1..Len(g) : g[i] # "."
    /\ \A i \in 1..Len(g) : g[i] # "." => isdigit(g[i])

\* unit = match.group(4) if len(match.groups()) >= 4 and match.group(4) else
\* "inches", a '"' becoming "inches"; gs is match.groups()
DimensionsUnit(gs) ==
    IF Len(gs) >= 4 /\ gs[4] # None /\ Len(gs[4]) > 0 /\ gs[4] # <<"\"">>
    THEN gs[4]
    ELSE Chars("inches")
\* The text of the numeric groups nums, all_groups being match.groups().
JoinDimensions(nums, all_groups) ==
    IF Len(nums) >= 3
    THEN nums[1] \o Chars(" x ") \o nums[2] \o Chars(" x ") \o nums[3] \o <<" ">>
         \o DimensionsUnit(all_groups)
    ELSE IF Len(nums) = 2
    THEN nums[1] \o Chars(" x ") \o nums[2]
    ELSE <<>>
\* A faulty _format_dimensions, without the branch of two numbers.
AtLeastThree(nums) == IF Len(nums) >= 3 THEN nums ELSE <<>>
format_three_dimensions(match) ==
    JoinDimensions(AtLeastThree(SelectSeq(groups(match),
                                          LAMBDA g : g # None /\ Len(g) > 0 /\ IsNumeric(g))),
                   groups(match))
_format_dimensions(match) ==
    JoinDimensions(SelectSeq(groups(match),
                             LAMBDA g : g # None /\ Len(g) > 0 /\ IsNumeric(g)),
                   groups(match))

\* \b(with|and|for|the|a|an)\b.*
FillerPattern ==
    [re |-> Cat(<<WordBoundary,
                  Grp(1, Alt(<<Lit("with"), Lit("and"), Lit("for"), Lit("the"), Lit("a"),
                               Lit("an")>>)),
                  WordBoundary, Star(NSet({"\n"}))>>),
     ngroups |-> 1]

\* return material.title() if 3 < len(material) < 30 else ""
TitleOfMaterial(material) ==
    IF 3 < Len(material) /\ Len(material) < 30 THEN title(material) ELSE <<>>
_clean_material(material) ==
    TitleOfMaterial(strip(re_sub_empty(FillerPattern, lower(strip(material)), FALSE)))

Format(fmt, m) ==
    CASE fmt = "dimensions" -> _format_dimensions(m)
      [] fmt = "number unit" -> fstr(group(m, 1)) \o <<" ">> \o fstr(group(m, 2))
      [] fmt = "clean material" ->
           IF group(m, 1) = None THEN Raised ELSE _clean_material(group(m, 1))
      [] fmt = "title" -> IF group(m, 1) = None THEN Raised ELSE title(group(m, 1))
      [] fmt = "strip title" ->
           IF group(m, 1) = None THEN Raised ELSE title(strip(group(m, 1)))
      [] fmt = "temperature" ->
           fstr(group(m, 1)) \o <<DEGREE, " ">>
           \o (IF group(m, 2) # None /\ Len(group(m, 2)) > 0
               THEN upper(group(m, 2)) ELSE <<"F">>)
      [] fmt = "settings" -> fstr(group(m, 1)) \o Chars(" settings")
      [] fmt = "pieces" -> fstr(group(m, 1)) \o Chars(" pieces")

(***************************************************************************)
(* _is_valid_value                                                         *)
(***************************************************************************)
DefaultMaxLength == 100

\* The number of characters that are neither alphanumeric nor a space.
SpecialCount(value) ==
    Cardinality({i \in 1..Len(value) : ~isalnum(value[i]) /\ value[i] # " "})

\* The checks on value = value.strip(); special / len > 0.3 is compared in
\* integers, and the division raises when len is 0.
ValidStripped(value, max_length) ==
    IF Len(value) > max_length THEN FALSE
    ELSE IF Len(value) = 0 THEN Raised
    ELSE IF 10 * SpecialCount(value) > 3 * Len(value) THEN FALSE
    ELSE IF count(value, ",") > 5 \/ count(value, ".") > 5 THEN FALSE
    ELSE TRUE
\* A faulty _is_valid_value, which checks the value as given.
is_valid_unstripped(value, max_length) ==
    IF Len(value) = 0 \/ Len(strip(value)) = 0 THEN FALSE
    ELSE ValidStripped(value, max_length)
_is_valid_value(value, max_length) ==
    IF Len(value) = 0 \/ Len(strip(value)) = 0 THEN FALSE
    ELSE ValidStripped(strip(value), max_length)

(***************************************************************************)
(* clean_html.  BeautifulSoup's get_text(separator=' ', strip=True) joins  *)
(* the texts between the tags with a space; a tag is "<", a letter or "/", *)
(* and what follows up to the next ">".                                    *)
(***************************************************************************)
TagOpensAt(s, a) ==
    /\ s[a] = "<"
    /\ a < Len(s)
    /\ s[a + 1] \in Lowers \cup Uppers \cup {"/"}
    /\ \E b \in (a + 1)..Len(s) : s[b] = ">"
InTag(s, i) ==
    \E a \in 1..i : TagOpensAt(s, a) /\ \A k \in a..(i - 1) : s[k] # ">"
get_text(s) == [i \in 1..Len(s) |-> IF InTag(s, i) THEN " " ELSE s[i]]

clean_html(html_text) ==
    IF ~notna(html_text) THEN <<>> ELSE join(split(get_text(html_text)))

(***************************************************************************)
(* extract_specs_from_text.  A dict is the sequence of its items in        *)
(* insertion order, an item being [label, value].                          *)
(***************************************************************************)
keys(specs) == {specs[i].label : i \in 1..Len(specs)}
Get(specs, label) == specs[CHOOSE i \in 1..Len(specs) : specs[i].label = label].value

\* specs[label] = value: a new key is appended, an old key keeps its place.
SetItem(specs, label, value) ==
    IF label \in keys(specs)
    THEN [i \in 1..Len(specs) |->
             IF specs[i].label = label THEN [label |-> label, value |-> value] ELSE specs[i]]
    ELSE Append(specs, [label |-> label, value |-> value])

\* The inner loop over a label's rules from rule k on: the value of the first
\* rule that matches and formats to a non-empty valid value (the break), a
\* rule whose formatter raises being skipped (the except); None when no rule
\* gives one.
RECURSIVE FirstValue(_, _, _)
\* if value and self._is_valid_value(value), a formatter that raised giving
\* no value
Accepted(value) ==
    IF value # Raised /\ Len(value) > 0 /\ _is_valid_value(value, DefaultMaxLength)
    THEN value
    ELSE None
\* if matches: the accepted value of the rule
RuleValue(rule, matches) ==
    IF matches.ok THEN Accepted(Format(rule.fmt, matches)) ELSE None
\* break on a value, else the next rule
ValueOrNext(value, rules, k, text_lower) ==
    IF value # None THEN value ELSE FirstValue(rules, k + 1, text_lower)
\* A faulty inner loop, in which a later rule's value replaces an earlier one's.
RECURSIVE LastValue(_, _, _)
LaterOrValue(later, value) == IF later # None THEN later ELSE value
LastValue(rules, k, text_lower) ==
    IF k > Len(rules) THEN None
    ELSE LaterOrValue(LastValue(rules, k + 1, text_lower),
                      RuleValue(rules[k], re_search(rules[k], text_lower, TRUE)))
FirstValue(rules, k, text_lower) ==
    IF k > Len(rules) THEN None
    ELSE ValueOrNext(RuleValue(rules[k], re_search(rules[k], text_lower, TRUE)),
                     rules, k, text_lower)

\* specs[label] = value when a rule of the label gave a value
SetFound(specs, label, value) ==
    IF value = None THEN specs ELSE SetItem(specs, label, value)

\* The outer loop over the labels from label n on.
RECURSIVE SpecsLoop(_, _, _, _)
SpecsLoop(specs, n, text_lower, max_specs) ==
    IF n > Len(Labels) THEN specs
    ELSE IF Len(specs) >= max_specs THEN specs
    ELSE SpecsLoop(SetFound(specs, Labels[n], FirstValue(patterns[Labels[n]], 1, text_lower)),
                   n + 1, text_lower, max_specs)

\* A faulty pattern pass, which stops one label late.
extract_specs_late(text, max_specs) == SpecsLoop(<<>>, 1, lower(text), max_specs + 1)

extract_specs_from_text(text, max_specs) == SpecsLoop(<<>>, 1, lower(text), max_specs)

(***************************************************************************)
(* extract_key_features                                                    *)
(***************************************************************************)
\* [•●○▪▫]\s*([^•●○▪▫\n]{10,80})
bullet_pattern ==
    [re |-> Cat(<<Set(BulletGlyphs), Star(S),
                  Grp(1, Rep(NSet(BulletGlyphs \cup {"\n"}), 10, 80, TRUE))>>),
     ngroups |-> 1]
\* keyword:?\s+([^.]{15,80})\.
KeywordPattern(keyword) ==
    [re |-> Cat(<<Lit(keyword), Opt(Ch(":")), Plus(S),
                  Grp(1, Rep(NSet({"."}), 15, 80, TRUE)), Ch(".")>>),
     ngroups |-> 1]
feature_keywords ==
    <<[pattern |-> KeywordPattern("featuring"), label |-> "Feature"],
      [pattern |-> KeywordPattern("includes"), label |-> "Included"],
      [pattern |-> KeywordPattern("comes with"), label |-> "Included"]>>

\* seq[:n]
Slice(seq, n) ==
    IF n >= 0
    THEN SubSeq(seq, 1, IF n < Len(seq) THEN n ELSE Len(seq))
    ELSE SubSeq(seq, 1, IF Len(seq) + n > 0 THEN Len(seq) + n ELSE 0)

\* if least < len(feature) < 80 and self._is_valid_value(feature):
\*     features.append((label, feature))
AddFeature(features, label, feature, least) ==
    IF least < Len(feature) /\ Len(feature) < 80 /\ _is_valid_value(feature, DefaultMaxLength)
    THEN Append(features, [label |-> label, value |-> feature])
    ELSE features

\* The loop over bullets[:max_features] from bullet k on.
RECURSIVE BulletLoop(_, _, _)
BulletLoop(features, bullets, k) ==
    IF k > Len(bullets) THEN features
    ELSE BulletLoop(AddFeature(features, "Feature",
                               rstripChars(strip(bullets[k]), {".", ","}), 10),
                    bullets, k + 1)

\* The loop over one keyword's matches from match k on.
RECURSIVE MatchLoop(_, _, _, _)
MatchLoop(features, matches, k, label) ==
    IF k > Len(matches) THEN features
    ELSE MatchLoop(AddFeature(features, label, rstripChars(strip(matches[k]), {","}), 15),
                   matches, k + 1, label)

\* The loop over feature_keywords from keyword n on.
RECURSIVE KeywordLoop(_, _, _, _)
KeywordLoop(features, n, text, max_features) ==
    IF n > Len(feature_keywords) THEN features
    ELSE KeywordLoop(MatchLoop(features,
                               Slice(re_findall(feature_keywords[n].pattern, text, TRUE),
                                     max_features - Len(features)),
                               1, feature_keywords[n].label),
                     n + 1, text, max_features)

\* if features: return features; else the keyword phrases
BulletsOrKeywords(features, text, max_features) ==
    IF Len(features) > 0 THEN features ELSE KeywordLoop(<<>>, 1, text, max_features)
extract_key_features(text, max_features) ==
    BulletsOrKeywords(BulletLoop(<<>>, Slice(re_findall(bullet_pattern, text, FALSE),
                                             max_features), 1),
                      text, max_features)

(***************************************************************************)
(* extract_brand: a text, None, or Raised (words[0] of an empty list,      *)
(* brand[0] of an empty word).                                             *)
(***************************************************************************)
\* A faulty extract_brand, which takes words[0] without the test of words.
extract_brand_unguarded(title_, vendor) ==
    IF notna(vendor) /\ 2 < Len(strip(vendor)) /\ Len(strip(vendor)) < 30 THEN strip(vendor)
    ELSE IF notna(title_)
    THEN (IF Len(split(title_)) = 0 THEN Raised
          ELSE IF isupper(split(title_)[1][1]) /\ 2 < Len(split(title_)[1])
                  /\ Len(split(title_)[1]) < 30
          THEN split(title_)[1]
          ELSE None)
    ELSE None
\* A faulty extract_brand, which returns the vendor as it is written.
extract_brand_verbatim(title_, vendor) ==
    IF notna(vendor) /\ 2 < Len(strip(vendor)) /\ Len(strip(vendor)) < 30 THEN vendor
    ELSE IF notna(title_) /\ Len(split(title_)) > 0 /\ isupper(split(title_)[1][1])
            /\ 2 < Len(split(title_)[1]) /\ Len(split(title_)[1]) < 30
    THEN split(title_)[1]
    ELSE None

extract_brand(title_, vendor) ==
    LET brand == IF notna(vendor) THEN strip(vendor) ELSE <<>>
    IN IF notna(vendor) /\ 2 < Len(brand) /\ Len(brand) < 30 THEN brand
       ELSE IF notna(title_)
       THEN LET words == split(title_)
            IN IF Len(words) > 0
               THEN (IF Len(words[1]) = 0 THEN Raised
                     ELSE IF isupper(words[1][1]) /\ 2 < Len(words[1]) /\ Len(words[1]) < 30
                     THEN words[1]
                     ELSE None)
               ELSE None
       ELSE None

(***************************************************************************)
(* format_specs_for_shopify: json.dumps of the list of "key: value", and   *)
(* what json.loads makes of it.                                            *)
(***************************************************************************)
\* The concatenation of seqs[lo], ..., seqs[hi].
RECURSIVE Concat(_, _, _)
Concat(seqs, lo, hi) ==
    IF lo > hi THEN <<>>
    ELSE IF lo = hi THEN seqs[lo]
    ELSE LET mid == (lo + hi) \div 2
         IN Concat(seqs, lo, mid) \o Concat(seqs, mid + 1, hi)

\* json.dumps of one character (ensure_ascii): a character outside ASCII is
\* named by its code point, "U+00D7", and is written ×.
JsonChar(c) ==
    CASE c = "\"" -> <<"\\", "\"">>
      [] c = "\\" -> <<"\\", "\\">>
      [] c = "\n" -> <<"\\", "n">>
      [] c = "\t" -> <<"\\", "t">>
      [] Len(c) > 1 -> <<"\\", "u">> \o lower(Chars(SubSeq(c, 3, Len(c))))
      [] OTHER -> <<c>>
JsonString(s) ==
    <<"\"">> \o Concat([i \in 1..Len(s) |-> JsonChar(s[i])], 1, Len(s)) \o <<"\"">>
json_dumps(list) ==
    <<"[">>
    \o Concat([i \in 1..Len(list) |->
                  (IF i > 1 THEN <<",", " ">> ELSE <<>>) \o JsonString(list[i])],
              1, Len(list))
    \o <<"]">>

format_specs_for_shopify(specs) ==
    IF Len(specs) = 0 THEN <<>>
    ELSE json_dumps([i \in 1..Len(specs) |->
                        Chars(specs[i].label) \o <<":", " ">> \o specs[i].value])

\* len(json.loads(text)) for the dump of a list of strings: a quote opens or
\* closes a string unless an odd run of backslashes precedes it.
BackslashesBefore(s, i) ==
    CHOOSE n \in 0..(i - 1) :
        /\ \A k \in 1..n : s[i - k] = "\\"
        /\ n = i - 1 \/ s[i - n - 1] # "\\"
json_loads_len(s) ==
    Cardinality({i \in 1..Len(s) : s[i] = "\"" /\ BackslashesBefore(s, i) % 2 = 0}) \div 2

(***************************************************************************)
(* The inputs.  A row of the sheet has the five columns process_row reads  *)
(* and the spec_list column the loop reads and writes; NaN is an empty     *)
(* cell.                                                                   *)
(***************************************************************************)
Row(body, title_, vendor, type, material, spec) ==
    [BodyHTML |-> body, Title |-> title_, Vendor |-> vendor, Type |-> type,
     Material |-> material, SpecList |-> spec]

\* A description with more labels than the description pass keeps.
FullBody ==
    Chars("<p>Size: 10x5, weighs 4.5 lbs, 12 cup capacity, 900 Watts, 120V, made of glass. Color: red. Up to 450 degrees F</p>")
\* A description with a material, a power rating followed by "max", and bullets.
SteelBody ==
    Chars("1500 watts max output. Made of the best. <b>Stainless  steel</b> body. ")
    \o <<BULLET>> \o Chars(" cool touch handle ") \o <<BULLET>> \o Chars(" dishwasher safe parts .")
\* A description of bullets only, the first of them no valid value.
BulletBody ==
    <<BLACKCIRCLE>> \o Chars(" !!!!!!!!!!!!! ") \o <<BLACKCIRCLE>> \o Chars(" removable drip tray ")
    \o <<BLACKCIRCLE>> \o Chars(" nonslip feet included")
\* A description with keyword phrases and no bullet.
KeywordBody ==
    Chars("Featuring: a removable nonstick plate ,. Weighs 3 kg. Includes: two racks and one tray.")
Bodies ==
    {NaN, FullBody, SteelBody, BulletBody, KeywordBody,
     Chars("A great product."),
     Chars("<b>Weight</b> 3 kg, 8 piece set, 2 speed settings")}
Titles ==
    {NaN,
     Chars("Acme Blender 500 2 kg 5 l 7 v"),
     Chars("   "),
     Chars("acme glass bowl 2 kg"),
     Chars("Rubber Mat")}
Vendors == {NaN, Chars(" Salton "), Chars("P&G"), Chars("ab")}
Types == {NaN, Chars("Kitchen, Small Appliances"), Chars("abc")}
MaterialHints == {NaN, Chars(" Bamboo "), Chars("a-b")}
SpecLists == {NaN, Chars("  "), Chars("[\"Brand: Old\"]")}

Rows ==
    {Row(b, t, v, y, m, s) :
        b \in Bodies, t \in Titles, v \in Vendors, y \in Types, m \in MaterialHints,
        s \in SpecLists}

(***************************************************************************)
(* process_row's calls of the extractors on the texts of the inputs,       *)
(* evaluated once for each text.                                           *)
(***************************************************************************)
\* self.extract_specs_from_text(clean_text, max_specs=5)
DescriptionSpecs == [b \in Bodies \ {NaN} |-> extract_specs_from_text(clean_html(b), 5)]
\* self.extract_specs_from_text(clean_title, max_specs=2)
TitleSpecs == [t \in Titles \ {NaN} |-> extract_specs_from_text(clean_html(t), 2)]
\* self.extract_key_features(clean_text, max_features=...)
KeyFeatures ==
    [b \in Bodies \ {NaN} |-> [n \in 1..2 |-> extract_key_features(clean_html(b), n)]]

(***************************************************************************)
(* The state: process_excel_file's df, flag, loop index and stats, and the *)
(* locals of the process_row call in progress.                             *)
(***************************************************************************)
VARIABLES
    df,                 \* the sheet: a sequence of rows
    overwrite_existing, \* the flag of process_excel_file
    idx,                \* the row the loop is at
    pc,                 \* where the loop, or the process_row call in it, is
    all_specs,          \* process_row: all_specs
    text_specs,         \* process_row: text_specs
    title_specs,        \* process_row: title_specs
    specs_json,         \* what process_row returned
    stats,              \* process_excel_file: stats
    returned,           \* the calls of process_row made: [row, specs, specs_json]
    call                \* the last call of a function on its own: [fn, args, result]

vars ==
    <<df, overwrite_existing, idx, pc, all_specs, text_specs, title_specs, specs_json,
      stats, returned, call>>

row == df[idx]

NoCall == [fn |-> "none", args |-> <<>>, result |-> <<>>]

InitLoop(frames) ==
    /\ df \in frames
    /\ overwrite_existing \in BOOLEAN
    /\ idx = 1
    /\ pc = "loop"
    /\ all_specs = <<>>
    /\ text_specs = <<>>
    /\ title_specs = <<>>
    /\ specs_json = <<>>
    /\ stats = [total |-> Len(df), already_populated |-> 0, newly_populated |-> 0,
                skipped |-> 0, specs_extracted |-> 0]
    /\ returned = <<>>
    /\ call = NoCall

\* A sheet of one row, any row.
Init == InitLoop({<<r>> : r \in Rows})

(***************************************************************************)
(* process_excel_file: the loop over the rows.                             *)
(***************************************************************************)
has_existing(r) == notna(r.SpecList) /\ Len(strip(r.SpecList)) > 0

\* has_existing and not overwrite_existing: count the row, continue.
SkipRow ==
    /\ pc = "loop"
    /\ idx <= Len(df)
    /\ has_existing(row) /\ ~overwrite_existing
    /\ stats' = [stats EXCEPT !.already_populated = @ + 1]
    /\ idx' = idx + 1
    /\ UNCHANGED <<df, overwrite_existing, pc, all_specs, text_specs, title_specs,
                   specs_json, returned, call>>

\* A faulty entry, which keeps the all_specs of the row before.
EnterKeepingSpecs ==
    /\ pc = "loop"
    /\ idx <= Len(df)
    /\ ~(has_existing(row) /\ ~overwrite_existing)
    /\ pc' = "description"
    /\ UNCHANGED <<df, overwrite_existing, idx, all_specs, text_specs, title_specs,
                   specs_json, stats, returned, call>>

\* extractor.process_row(row) is entered: all_specs = {}.
EnterProcessRow ==
    /\ pc = "loop"
    /\ idx <= Len(df)
    /\ ~(has_existing(row) /\ ~overwrite_existing)
    /\ pc' = "description"
    /\ all_specs' = <<>>
    /\ text_specs' = <<>>
    /\ title_specs' = <<>>
    /\ UNCHANGED <<df, overwrite_existing, idx, specs_json, stats, returned, call>>

\* all_specs.update(text_specs)
RECURSIVE Update(_, _, _)
Update(specs, items, k) ==
    IF k > Len(items) THEN specs
    ELSE Update(SetItem(specs, items[k].label, items[k].value), items, k + 1)

\* A faulty title step, which overwrites the labels already set.
AddOverwriting(specs, items, k) == Update(specs, items, k)

\* for key, value in title_specs.items(): if key not in all_specs: ...
RECURSIVE AddMissing(_, _, _)
AddMissing(specs, items, k) ==
    IF k > Len(items) THEN specs
    ELSE AddMissing(IF items[k].label \notin keys(specs)
                    THEN SetItem(specs, items[k].label, items[k].value)
                    ELSE specs,
                    items, k + 1)

\* 1. Extract structured specs from description
StepDescription ==
    /\ pc = "description"
    /\ text_specs' = IF notna(row.BodyHTML)
                     THEN DescriptionSpecs[row.BodyHTML]
                     ELSE <<>>
    /\ all_specs' = Update(all_specs, text_specs', 1)
    /\ pc' = "title"
    /\ UNCHANGED <<df, overwrite_existing, idx, title_specs, specs_json, stats, returned, call>>

\* 2. Extract from title
StepTitle ==
    /\ pc = "title"
    /\ title_specs' = IF notna(row.Title)
                      THEN TitleSpecs[row.Title]
                      ELSE <<>>
    /\ all_specs' = AddMissing(all_specs, title_specs', 1)
    /\ pc' = "brand"
    /\ UNCHANGED <<df, overwrite_existing, idx, text_specs, specs_json, stats, returned, call>>

\* 3. Add brand; the call raises when extract_brand does.
AfterBrand(brand) ==
    IF brand = Raised
    THEN pc' = "raised" /\ UNCHANGED all_specs
    ELSE /\ pc' = "type"
         /\ all_specs' = IF brand # None /\ Len(brand) > 0 /\ "Brand" \notin keys(all_specs)
                         THEN SetItem(all_specs, "Brand", brand)
                         ELSE all_specs
StepBrand ==
    /\ pc = "brand"
    /\ AfterBrand(extract_brand(row.Title, row.Vendor))
    /\ UNCHANGED <<df, overwrite_existing, idx, text_specs, title_specs, specs_json, stats,
                   returned, call>>

\* 4. Add product type
StepType ==
    /\ pc = "type"
    /\ all_specs' = IF notna(row.Type)
                       /\ Len(strip(row.Type)) > 0
                       /\ 3 < Len(strip(row.Type)) /\ Len(strip(row.Type)) < 50
                    THEN SetItem(all_specs, "Category", strip(row.Type))
                    ELSE all_specs
    /\ pc' = "material"
    /\ UNCHANGED <<df, overwrite_existing, idx, text_specs, title_specs, specs_json, stats,
                   returned, call>>

\* 5. Add material from metafield if available
StepMaterial ==
    /\ pc = "material"
    /\ all_specs' = IF notna(row.Material)
                       /\ "Material" \notin keys(all_specs)
                       /\ 3 < Len(strip(row.Material)) /\ Len(strip(row.Material)) < 30
                    THEN SetItem(all_specs, "Material", strip(row.Material))
                    ELSE all_specs
    /\ pc' = "features"
    /\ UNCHANGED <<df, overwrite_existing, idx, text_specs, title_specs, specs_json, stats,
                   returned, call>>

\* A faulty feature step, which runs whatever all_specs holds.
StepFeaturesUngated ==
    /\ pc = "features"
    /\ all_specs' = IF notna(row.BodyHTML)
                    THEN Update(all_specs, KeyFeatures[row.BodyHTML][2], 1)
                    ELSE all_specs
    /\ pc' = "return"
    /\ UNCHANGED <<df, overwrite_existing, idx, text_specs, title_specs, specs_json, stats,
                   returned, call>>

\* 6. Add 1-2 key features only if we have less than 4 specs
StepFeatures ==
    /\ pc = "features"
    /\ all_specs' = IF Len(all_specs) < 4 /\ notna(row.BodyHTML)
                    THEN LET most == IF 2 < 5 - Len(all_specs) THEN 2 ELSE 5 - Len(all_specs)
                         IN Update(all_specs, KeyFeatures[row.BodyHTML][most], 1)
                    ELSE all_specs
    /\ pc' = "return"
    /\ UNCHANGED <<df, overwrite_existing, idx, text_specs, title_specs, specs_json, stats,
                   returned, call>>

\* return self.format_specs_for_shopify(all_specs)
ReturnSpecs ==
    /\ pc = "return"
    /\ specs_json' = format_specs_for_shopify(all_specs)
    /\ returned' = Append(returned, [row |-> row, specs |-> all_specs,
                                     specs_json |-> specs_json'])
    /\ pc' = "store"
    /\ UNCHANGED <<df, overwrite_existing, idx, all_specs, text_specs, title_specs, stats, call>>

\* A faulty store, which writes the cell whatever process_row returned.
StoreSpecsAlways ==
    /\ pc = "store"
    /\ df' = [df EXCEPT ![idx].SpecList = specs_json]
    /\ stats' = IF Len(specs_json) > 0
                THEN [stats EXCEPT !.newly_populated = @ + 1,
                                   !.specs_extracted = @ + json_loads_len(specs_json)]
                ELSE [stats EXCEPT !.skipped = @ + 1]
    /\ idx' = idx + 1
    /\ pc' = "loop"
    /\ UNCHANGED <<overwrite_existing, all_specs, text_specs, title_specs, specs_json,
                   returned, call>>

\* if specs_json: write the cell and count the row as newly populated;
\* else: count it as skipped.
StoreSpecs ==
    /\ pc = "store"
    /\ IF Len(specs_json) > 0
       THEN /\ df' = [df EXCEPT ![idx].SpecList = specs_json]
            /\ stats' = [stats EXCEPT !.newly_populated = @ + 1,
                                      !.specs_extracted = @ + json_loads_len(specs_json)]
       ELSE /\ df' = df
            /\ stats' = [stats EXCEPT !.skipped = @ + 1]
    /\ idx' = idx + 1
    /\ pc' = "loop"
    /\ UNCHANGED <<overwrite_existing, all_specs, text_specs, title_specs, specs_json,
                   returned, call>>

\* The loop is over: df.to_excel(output_file).
Save ==
    /\ pc = "loop"
    /\ idx > Len(df)
    /\ pc' = "saved"
    /\ UNCHANGED <<df, overwrite_existing, idx, all_specs, text_specs, title_specs,
                   specs_json, stats, returned, call>>

Next ==
    \/ SkipRow
    \/ EnterProcessRow
    \/ StepDescription
    \/ StepTitle
    \/ StepBrand
    \/ StepType
    \/ StepMaterial
    \/ StepFeatures
    \/ ReturnSpecs
    \/ StoreSpecs
    \/ Save

Spec == Init /\ [][Next]_vars

(***************************************************************************)
(* process_excel_file on sheets of several rows.                           *)
(***************************************************************************)
MaxRows == 3

LoopRows ==
    {Row(NaN, NaN, NaN, NaN, NaN, NaN),
     Row(SteelBody, Chars("acme glass bowl 2 kg"), Chars(" Salton "),
         Chars("Kitchen, Small Appliances"), Chars(" Bamboo "), NaN),
     Row(NaN, Chars("Rubber Mat"), NaN, NaN, NaN, Chars("[\"Brand: Old\"]")),
     Row(BulletBody, NaN, Chars("P&G"), Chars("abc"), NaN, Chars("  "))}

\* The sheets of at most MaxRows rows.
Sheets == UNION {[1..n -> LoopRows] : n \in 0..MaxRows}

InitSheets == InitLoop(Sheets)

SpecLoop == InitSheets /\ [][Next]_vars

(***************************************************************************)
(* populate_specs_ai.py: the same loop around AISpecExtractor.process_row, *)
(* whose result depends on the reply of the API.  The stats of this loop   *)
(* have the keys failed and api_calls where the pattern loop has skipped.  *)
(***************************************************************************)
\* soup.get_text(separator=' ', strip=True): the texts between the tags,
\* each stripped, the empty ones dropped, joined by a space.
RECURSIVE TextNodesFrom(_, _)
TextNodesFrom(s, i) ==
    IF \A a \in i..Len(s) : InTag(s, a) THEN <<>>
    ELSE LET a == CHOOSE a \in i..Len(s) :
                      ~InTag(s, a) /\ \A k \in i..(a - 1) : InTag(s, k)
             b == CHOOSE b \in (a + 1)..(Len(s) + 1) :
                      /\ b = Len(s) + 1 \/ InTag(s, b)
                      /\ \A k \in a..(b - 1) : ~InTag(s, k)
         IN (IF Len(strip(SubSeq(s, a, b - 1))) = 0 THEN <<>>
             ELSE <<strip(SubSeq(s, a, b - 1))>>)
            \o TextNodesFrom(s, b)
ai_clean_html(html_text) ==
    IF ~notna(html_text) THEN <<>> ELSE join(TextNodesFrom(html_text, 1))

\* "\n".join(context_parts)
RECURSIVE JoinLines(_)
JoinLines(parts) ==
    IF Len(parts) = 0 THEN <<>>
    ELSE IF Len(parts) = 1 THEN parts[1]
    ELSE parts[1] \o <<"\n">> \o JoinLines(Tail(parts))

\* One part of the context for a field that is present.
ContextPart(name, value) ==
    IF notna(value) THEN <<Chars(name) \o <<":", " ">> \o value>> ELSE <<>>
build_product_context(r) ==
    JoinLines(ContextPart("Product", r.Title)
              \o ContextPart("Description", ai_clean_html(r.BodyHTML))
              \o ContextPart("Category", r.Type)
              \o ContextPart("Vendor", r.Vendor)
              \o ContextPart("Material", r.Material))

\* What client.messages.create and json.loads can give: an API error, a
\* text that is no JSON, a JSON value that is no list, or a list whose items
\* are strings or (None here) something else.
Replies ==
    {[kind |-> "error", items |-> <<>>],
     [kind |-> "not json", items |-> <<>>],
     [kind |-> "object", items |-> <<>>],
     [kind |-> "list", items |-> <<>>],
     [kind |-> "list", items |-> <<Chars("Brand: Acme"), Chars("no colon")>>],
     [kind |-> "list", items |-> <<Chars("Brand: Acme"), None>>],
     [kind |-> "list", items |-> <<Chars("Brand: Acme"), Chars("Power: 900 watts")>>]}

extract_specs_with_ai(reply) ==
    IF reply.kind # "list" \/ Len(reply.items) = 0 THEN None
    ELSE IF \E n \in 1..Len(reply.items) :
                reply.items[n] = None \/ count(reply.items[n], ":") = 0
         THEN None
         ELSE json_dumps(reply.items)

\* AISpecExtractor.process_row: "" for a blank context, without a call.
OrEmpty(value) == IF value = None THEN <<>> ELSE value
ai_process_row(r, reply) ==
    IF Len(strip(build_product_context(r))) = 0 THEN <<>>
    ELSE OrEmpty(extract_specs_with_ai(reply))

\* The rows of the sheets of both loops: those of LoopRows and a row that
\* has specs and nothing to extract from.
StrategyRows ==
    LoopRows \cup {Row(NaN, NaN, NaN, NaN, NaN, Chars("[\"Brand: Old\"]"))}
StrategySheets == UNION {[1..n -> StrategyRows] : n \in 0..MaxRows}

InitAI(frames) ==
    /\ df \in frames
    /\ overwrite_existing \in BOOLEAN
    /\ idx = 1
    /\ pc = "loop"
    /\ all_specs = <<>>
    /\ text_specs = <<>>
    /\ title_specs = <<>>
    /\ specs_json = <<>>
    /\ stats = [total |-> Len(df), already_populated |-> 0, newly_populated |-> 0,
                failed |-> 0, specs_extracted |-> 0, api_calls |-> 0]
    /\ returned = <<>>
    /\ call = NoCall

InitStrategies == InitLoop(StrategySheets) \/ InitAI(StrategySheets)

\* specs_json = extractor.process_row(row); stats['api_calls'] += 1
ProcessRowAI ==
    /\ pc = "loop"
    /\ idx <= Len(df)
    /\ ~(has_existing(row) /\ ~overwrite_existing)
    /\ \E reply \in Replies : specs_json' = ai_process_row(row, reply)
    /\ returned' = Append(returned, [row |-> row, specs_json |-> specs_json'])
    /\ stats' = [stats EXCEPT !.api_calls = @ + 1]
    /\ pc' = "store"
    /\ UNCHANGED <<df, overwrite_existing, idx, all_specs, text_specs, title_specs, call>>

\* if specs_json: write the cell and count the row as newly populated;
\* else: count it as failed.
StoreSpecsAI ==
    /\ pc = "store"
    /\ IF Len(specs_json) > 0
       THEN /\ df' = [df EXCEPT ![idx].SpecList = specs_json]
            /\ stats' = [stats EXCEPT !.newly_populated = @ + 1,
                                      !.specs_extracted = @ + json_loads_len(specs_json)]
       ELSE /\ df' = df
            /\ stats' = [stats EXCEPT !.failed = @ + 1]
    /\ idx' = idx + 1
    /\ pc' = "loop"
    /\ UNCHANGED <<overwrite_existing, all_specs, text_specs, title_specs, specs_json,
                   returned, call>>

\* Which loop runs, told by the keys of its stats.
PatternLoop == "skipped" \in DOMAIN stats
AILoop == "failed" \in DOMAIN stats

NextStrategies ==
    \/ SkipRow
    \/ PatternLoop /\ EnterProcessRow
    \/ StepDescription
    \/ StepTitle
    \/ StepBrand
    \/ StepType
    \/ StepMaterial
    \/ StepFeatures
    \/ ReturnSpecs
    \/ PatternLoop /\ StoreSpecs
    \/ AILoop /\ ProcessRowAI
    \/ AILoop /\ StoreSpecsAI
    \/ Save

SpecStrategies == InitStrategies /\ [][NextStrategies]_vars

(***************************************************************************)
(* The extractor's methods called on their own, one call in a behaviour,   *)
(* on texts built from small parts.                                        *)
(***************************************************************************)
DefaultMaxSpecs == 6
MaxSpecs == 6
MaxPieces == 3
MaxSegments == 3
MaxFeatures == 3

\* The concatenations of at most n parts.
Built(parts, n) ==
    {Concat(seq, 1, Len(seq)) : seq \in UNION {[1..k -> parts] : k \in 0..n}}

\* Phrases that each give one label of the catalog, in catalog order, and
\* the texts that hold some of them.
CatalogPhrases ==
    <<Chars("1x2x3 in "), Chars("4 kg "), Chars("5 l "), Chars("6 w "), Chars("7 v "),
      Chars("made of the best wood. ")>>
PhrasesOf(chosen) ==
    Concat([k \in 1..Len(CatalogPhrases) |-> IF k \in chosen THEN CatalogPhrases[k] ELSE <<>>],
           1, Len(CatalogPhrases))
CatalogTexts == {PhrasesOf(chosen) : chosen \in SUBSET (1..Len(CatalogPhrases))}

\* Two numbers joined by a separator, alone or after a word.
DimensionWords ==
    {<<>>, Chars("size"), Chars("Size: "), Chars("dimension "), Chars("Dimensions:")}
DimensionNumbers == {Chars("10"), Chars("5"), Chars("2.5")}
DimensionSeparators == {<<"x">>, <<"X">>, <<" ", TIMES, " ">>}
TwoNumbers(word, a, sep, b) == word \o a \o sep \o b
DimensionTexts ==
    {TwoNumbers(word, a, sep, b) :
        word \in DimensionWords, a \in DimensionNumbers, sep \in DimensionSeparators,
        b \in DimensionNumbers}

\* Power ratings and what may follow them.
PowerPieces == {Chars("15"), <<" ">>, <<"w">>, Chars("watts")}
PowerEndings == {<<>>, Chars("max"), Chars(" max"), Chars(" maximum"), Chars(" m")}
PowerTexts ==
    {rating \o ending : rating \in Built(PowerPieces, MaxPieces), ending \in PowerEndings}
    \cup {Chars("1500 watts max output")}

\* The calls of extract_specs_from_text: the catalog texts under every cap,
\* the other texts under the default cap.
\* Texts on which two rules of a label match.
RuleTexts ==
    {Chars("Plastic lid, made of bamboo."), Chars("Made of the best. Glass bowl"),
     Chars("made of a"), Chars("Size: 1x2, box 3x4x5 cm"), Chars("Up to 12 cups")}

SpecsInputs ==
    (CatalogTexts \X (0..MaxSpecs))
    \cup ((DimensionTexts \cup PowerTexts \cup RuleTexts) \X {DefaultMaxSpecs})

\* Vendors and titles around the limits of extract_brand.
Word(first, n) == <<first>> \o [k \in 1..(n - 1) |-> "b"]
BrandVendors ==
    {NaN, <<>>, Chars("   "), Chars("ab"), Chars("abc"), Chars(" Salton "), Chars("  ab  "),
     Word("a", 29), Word("a", 30), <<" ">> \o Word("a", 29) \o <<" ">>}
BrandTitles ==
    {NaN, <<>>, Chars("   "), Chars("Acme Blender 500"), Chars("acme blender"),
     Chars("Ab cd"), Chars("  Acme\tblender"), Chars("500 Watts"),
     Word("A", 29) \o Chars(" x"), Word("A", 30) \o Chars(" x")}

\* Bullets, a keyword phrase after them or none, and a text of keywords only.
BulletSegments ==
    {<<BULLET>> \o Chars(" removable drip tray "),
     <<BULLET>> \o Chars(" nonslip feet included. "),
     <<BULLET>> \o Chars(" !!!!!!!!!!!!! ")}
KeywordPhrases == {<<>>, Chars("Includes: two racks and one tray.")}
FeatureTexts ==
    {bullets \o phrase : bullets \in Built(BulletSegments, MaxSegments),
                         phrase \in KeywordPhrases}
    \cup {KeywordBody}

\* Values of letters, commas, periods and other marks, a space inside and
\* at the ends or none, around the limits of _is_valid_value.
MaxMarks == 6
Repeat(c, n) == [k \in 1..n |-> c]
LetterCounts == {0, 1, 7, 20, 100}
MaybeSpace == {<<>>, <<" ">>}
Values ==
    {lead \o Repeat("a", n) \o inner \o Repeat(",", commas) \o Repeat(".", periods)
          \o bang \o trail :
        lead \in MaybeSpace, n \in LetterCounts, inner \in MaybeSpace, commas \in 0..MaxMarks,
        periods \in 0..MaxMarks, bang \in {<<>>, <<"!">>}, trail \in MaybeSpace}
MaxLengths == {DefaultMaxLength, 10}

InitCalls == InitLoop({<<>>}) /\ overwrite_existing = FALSE

\* extractor.extract_specs_from_text(text, max_specs)
CallExtractSpecs ==
    /\ call = NoCall
    /\ \E input \in SpecsInputs :
           call' = [fn |-> "extract_specs_from_text", args |-> input,
                    result |-> extract_specs_from_text(input[1], input[2])]
    /\ UNCHANGED <<df, overwrite_existing, idx, pc, all_specs, text_specs, title_specs,
                   specs_json, stats, returned>>

\* extractor.extract_brand(title, vendor)
CallExtractBrand ==
    /\ call = NoCall
    /\ \E title_ \in BrandTitles, vendor \in BrandVendors :
           call' = [fn |-> "extract_brand", args |-> <<title_, vendor>>,
                    result |-> extract_brand(title_, vendor)]
    /\ UNCHANGED <<df, overwrite_existing, idx, pc, all_specs, text_specs, title_specs,
                   specs_json, stats, returned>>

\* extractor.extract_key_features(text, max_features)
CallExtractKeyFeatures ==
    /\ call = NoCall
    /\ \E text \in FeatureTexts, max_features \in 0..MaxFeatures :
           call' = [fn |-> "extract_key_features", args |-> <<text, max_features>>,
                    result |-> extract_key_features(text, max_features)]
    /\ UNCHANGED <<df, overwrite_existing, idx, pc, all_specs, text_specs, title_specs,
                   specs_json, stats, returned>>

\* extractor._is_valid_value(value, max_length)
CallIsValidValue ==
    /\ call = NoCall
    /\ \E value \in Values, max_length \in MaxLengths :
           call' = [fn |-> "_is_valid_value", args |-> <<value, max_length>>,
                    result |-> _is_valid_value(value, max_length)]
    /\ UNCHANGED <<df, overwrite_existing, idx, pc, all_specs, text_specs, title_specs,
                   specs_json, stats, returned>>

NextCalls ==
    \/ CallIsValidValue
    \/ CallExtractSpecs
    \/ CallExtractBrand
    \/ CallExtractKeyFeatures

SpecCalls == InitCalls /\ [][NextCalls]_vars

(***************************************************************************)
(* The properties.                                                         *)
(***************************************************************************)
Min(a, b) == IF a < b THEN a ELSE b

\* The Validator as the specification words it: length at most 100, ratio of
\* special characters at most 0.3, at most 5 commas and 5 periods.
SatisfiesValidator(value) ==
    /\ Len(value) <= 100
    /\ 10 * SpecialCount(value) <= 3 * Len(value)
    /\ count(value, ",") <= 5
    /\ count(value, ".") <= 5

\* Non-empty, no whitespace at either end, at most 100 characters.
IsTrimmedValue(value) ==
    /\ Len(value) > 0
    /\ value[1] \notin Spaces
    /\ value[Len(value)] \notin Spaces
    /\ Len(value) <= 100

AllAbsent(r) ==
    r.BodyHTML = NaN /\ r.Title = NaN /\ r.Vendor = NaN /\ r.Type = NaN /\ r.Material = NaN

\* C1: in process_row a label set by an earlier step is never replaced by a
\* later step: every step keeps the entries all_specs holds; when the
\* description pass and the title pass both give a label the result holds
\* the description's value; and the material step leaves all_specs alone
\* when Material was set before it.
FirstWriterWins ==
    [][/\ pc # "loop" =>
            \A n \in 1..Len(all_specs) :
                /\ all_specs[n].label \in keys(all_specs')
                /\ Get(all_specs', all_specs[n].label) = all_specs[n].value
       /\ pc' = "return" =>
            \A l \in keys(text_specs') \cap keys(title_specs') :
                Get(all_specs', l) = Get(text_specs', l)
       /\ pc = "material" /\ "Material" \in keys(all_specs) => all_specs' = all_specs]_vars

\* A row whose description and title give different values for a label, the
\* description's being in the result, and whose material hint was not stored.
DescriptionWon ==
    /\ pc = "return"
    /\ \E l \in keys(text_specs) \cap keys(title_specs) :
           /\ Get(title_specs, l) # Get(text_specs, l)
           /\ Get(all_specs, l) = Get(text_specs, l)
    /\ notna(row.Material)
    /\ 3 < Len(strip(row.Material)) /\ Len(strip(row.Material)) < 30
    /\ Get(all_specs, "Material") # strip(row.Material)

\* C2: every value of the set process_row returns satisfies the Validator,
\* whatever its label.
ReturnedValuesValid ==
    \A m \in 1..Len(returned) :
        \A n \in 1..Len(returned[m].specs) : SatisfiesValidator(returned[m].specs[n].value)

\* C3: every value of the set process_row returns is non-empty, has no
\* whitespace at either end, and is at most 100 characters long.
ReturnedValuesTrimmed ==
    \A m \in 1..Len(returned) :
        \A n \in 1..Len(returned[m].specs) : IsTrimmedValue(returned[m].specs[n].value)

\* The labels of the catalog that give an accepted value on text, in catalog
\* order, each with its value.
AcceptedEntries(text) ==
    LET values == [n \in 1..Len(Labels) |-> FirstValue(patterns[Labels[n]], 1, lower(text))]
        found == SelectSeq([n \in 1..Len(Labels) |-> n], LAMBDA n : values[n] # None)
    IN [k \in 1..Len(found) |-> [label |-> Labels[found[k]], value |-> values[found[k]]]]

\* C4: extract_specs_from_text returns at most max_specs entries, those of
\* the first max_specs labels in catalog order that give an accepted value;
\* the calls with max_specs 5 and 2 are the description and the title pass.
CapLaw ==
    call.fn = "extract_specs_from_text" =>
        LET accepted == AcceptedEntries(call.args[1])
        IN /\ Len(call.result) <= call.args[2]
           /\ call.result = SubSeq(accepted, 1, Min(call.args[2], Len(accepted)))

\* A call under the description pass's cap on a text that gives more labels.
CapReached ==
    /\ call.fn = "extract_specs_from_text"
    /\ call.args[2] = 5
    /\ Len(AcceptedEntries(call.args[1])) > 5
    /\ Len(call.result) = 5

\* C5: no two entries of a returned set share a label, and process_row on
\* the same record returns the same set in the same order wherever the
\* record stands in the sheet.
MergeDeterministic ==
    /\ \A m \in 1..Len(returned) :
           \A i, j \in 1..Len(returned[m].specs) :
               returned[m].specs[i].label = returned[m].specs[j].label => i = j
    /\ \A m, n \in 1..Len(returned) :
           returned[m].row = returned[n].row =>
               /\ returned[m].specs = returned[n].specs
               /\ returned[m].specs_json = returned[n].specs_json

\* The same record merged twice, another record between, the set not empty.
MergedTwice ==
    \E m, n \in 1..Len(returned) :
        /\ m + 1 < n
        /\ returned[m].row = returned[n].row
        /\ returned[m + 1].row # returned[m].row
        /\ Len(returned[m + 1].specs) > 0
        /\ Len(returned[n].specs) > 1

\* C6: process_row never raises; on a record of five absent fields it
\* returns the empty set, serialized as the empty string, and the loop
\* counts every empty return as skipped.
MergeNeverRaises ==
    /\ pc # "raised"
    /\ \A m \in 1..Len(returned) :
           AllAbsent(returned[m].row) =>
               returned[m].specs = <<>> /\ returned[m].specs_json = <<>>
    /\ pc = "saved" =>
           stats.skipped = Cardinality({m \in 1..Len(returned) : returned[m].specs_json = <<>>})

\* A sheet whose one record has its five fields absent, saved.
AbsentRecordSkipped ==
    /\ pc = "saved"
    /\ Len(returned) = 1
    /\ AllAbsent(returned[1].row)
    /\ stats.skipped = 1

\* C7 as the specification states it: two numbers joined by a separator and
\* nothing else, such as "10x5", give the entry Dimensions "A x B".
BareTwoNumbers ==
    call.fn = "extract_specs_from_text" =>
        \A a \in DimensionNumbers, b \in DimensionNumbers, sep \in DimensionSeparators :
            call.args[1] = TwoNumbers(<<>>, a, sep, b) =>
                /\ "Dimensions" \in keys(call.result)
                /\ Get(call.result, "Dimensions") = a \o Chars(" x ") \o b

\* C7: two numbers joined by x, X or the times sign give the entry Dimensions
\* "A x B" when the word size, dimension or dimensions (a colon and
\* whitespace after it or none) stands before them, and no Dimensions entry
\* when they stand alone.
WordedTwoNumbers ==
    call.fn = "extract_specs_from_text" =>
        \A word \in DimensionWords, a \in DimensionNumbers, b \in DimensionNumbers,
           sep \in DimensionSeparators :
            call.args[1] = TwoNumbers(word, a, sep, b) =>
                IF word = <<>>
                THEN "Dimensions" \notin keys(call.result)
                ELSE /\ "Dimensions" \in keys(call.result)
                     /\ Get(call.result, "Dimensions") = a \o Chars(" x ") \o b

\* The call on "Size: 10x5", which gave Dimensions "10 x 5".
SizeTenByFive ==
    /\ call.fn = "extract_specs_from_text"
    /\ call.args[1] = Chars("Size: 10x5")
    /\ "Dimensions" \in keys(call.result)
    /\ Get(call.result, "Dimensions") = Chars("10 x 5")

\* An occurrence of "<integer> <watt|watts|w>" in s: digits from position i,
\* whitespace or none, and the unit as a whole word that ends before
\* position e.
IsPowerOccurrence(s, i, e) ==
    /\ ~(e <= Len(s) /\ IsWordChar(s[e]))
    /\ \E unit \in {Chars("watt"), Chars("watts"), Chars("w")} :
           /\ i < e - Len(unit)
           /\ SubSeq(s, e - Len(unit), e - 1) = unit
           /\ \E j \in (i + 1)..(e - Len(unit)) :
                  /\ \A n \in i..(j - 1) : s[n] \in Digits
                  /\ \A n \in j..(e - Len(unit) - 1) : s[n] \in Spaces
\* Whitespace or none, and then "max", from position e of s.
FollowedByMax(s, e) ==
    \E m \in e..(Len(s) - 2) :
        /\ \A n \in e..(m - 1) : s[n] \in Spaces
        /\ SubSeq(s, m, m + 2) = Chars("max")
PowerOccurrences(s) ==
    {<<i, e>> \in (1..Len(s)) \X (1..(Len(s) + 1)) : IsPowerOccurrence(s, i, e)}

\* C8: on a text whose every "<integer> <watt|watts|w>" is followed, after
\* whitespace or none, by "max", extract_specs_from_text gives no Power
\* entry.
PowerNotBeforeMax ==
    call.fn = "extract_specs_from_text" =>
        \/ "Power" \notin keys(call.result)
        \/ \E o \in PowerOccurrences(lower(call.args[1])) :
               ~FollowedByMax(lower(call.args[1]), o[2])

\* The call on "1500 watts max output": a rating, followed by "max", and no
\* Power entry.
RatingBeforeMax ==
    /\ call.fn = "extract_specs_from_text"
    /\ call.args[1] = Chars("1500 watts max output")
    /\ PowerOccurrences(call.args[1]) # {}
    /\ \A o \in PowerOccurrences(call.args[1]) : FollowedByMax(call.args[1], o[2])
    /\ "Power" \notin keys(call.result)

\* The first whitespace-delimited token of s, <<>> when s has none.
FirstToken(s) ==
    IF \A i \in 1..Len(s) : s[i] \in Spaces THEN <<>>
    ELSE LET a == CHOOSE i \in 1..Len(s) :
                      s[i] \notin Spaces /\ \A j \in 1..(i - 1) : s[j] \in Spaces
             b == CHOOSE i \in a..Len(s) :
                      /\ \A j \in a..i : s[j] \notin Spaces
                      /\ i = Len(s) \/ s[i + 1] \in Spaces
         IN SubSeq(s, a, b)
\* What extract_brand returns by the rule of the specification, the vendor
\* counting as given.
BrandBy(title_, vendor, given) ==
    IF vendor # NaN /\ 2 < Len(strip(vendor)) /\ Len(strip(vendor)) < 30 THEN given
    ELSE IF title_ # NaN /\ Len(FirstToken(title_)) > 0 /\ FirstToken(title_)[1] \in Uppers
            /\ 2 < Len(FirstToken(title_)) /\ Len(FirstToken(title_)) < 30
    THEN FirstToken(title_)
    ELSE None

\* C9 as the specification states it: a vendor whose trimmed length is
\* strictly between 2 and 30 is returned verbatim.
BrandVerbatim ==
    call.fn = "extract_brand" =>
        call.result = BrandBy(call.args[1], call.args[2], call.args[2])

\* C9: a vendor whose trimmed length is strictly between 2 and 30 is
\* returned trimmed, whatever the title; otherwise the first token of the
\* title when it starts with an uppercase letter and its length is strictly
\* between 2 and 30; otherwise None.
BrandTrimmed ==
    call.fn = "extract_brand" =>
        call.result = BrandBy(call.args[1], call.args[2], strip(call.args[2]))

\* The call with title "Acme Blender 500" and vendor " Salton ", which gave
\* "Salton".
VendorWins ==
    /\ call.fn = "extract_brand"
    /\ call.args = <<Chars("Acme Blender 500"), Chars(" Salton ")>>
    /\ call.result = Chars("Salton")

\* The bullet segments of text, each without its trailing punctuation, and
\* those of them that are kept.
BulletFeatures(text) ==
    LET bullets == re_findall(bullet_pattern, text, FALSE)
    IN [n \in 1..Len(bullets) |-> rstripChars(strip(bullets[n]), {".", ","})]
KeptBullets(text) ==
    SelectSeq(BulletFeatures(text),
              LAMBDA f : 10 < Len(f) /\ Len(f) < 80 /\ _is_valid_value(f, DefaultMaxLength))

\* C10: when a bullet segment is kept, extract_key_features returns the
\* first max_features kept segments, each labelled Feature; and a text that
\* has bullets gets nothing from the keyword phrases.
BulletPrecedence ==
    call.fn = "extract_key_features" =>
        /\ Len(KeptBullets(call.args[1])) > 0 =>
               call.result =
                   [n \in 1..Min(call.args[2], Len(KeptBullets(call.args[1]))) |->
                       [label |-> "Feature", value |-> KeptBullets(call.args[1])[n]]]
        /\ Len(BulletFeatures(call.args[1])) > 0 =>
               \A n \in 1..Len(call.result) : call.result[n].label = "Feature"

\* Whether the specification's Validator rejects value, its length, its
\* special characters, commas and periods being those of measured.
Rejects(value, measured, max_length) ==
    \/ Len(strip(value)) = 0
    \/ Len(measured) > max_length
    \/ 10 * SpecialCount(measured) > 3 * Len(measured)
    \/ count(measured, ",") > 5
    \/ count(measured, ".") > 5

\* C11 as the specification states it: _is_valid_value returns false exactly
\* when the value is empty or whitespace-only, is longer than max_length,
\* has special characters above 0.3 of its length, or has more than 5
\* commas or periods, all measured on the value as given.
ValidatorOnGiven ==
    call.fn = "_is_valid_value" =>
        /\ call.result \in BOOLEAN
        /\ call.result = ~Rejects(call.args[1], call.args[1], call.args[2])

\* C11: _is_valid_value returns a Boolean, never raises, and returns false
\* exactly when the value is empty or whitespace-only or, measured without
\* the whitespace at its ends, is longer than max_length, has special
\* characters above 0.3 of its length, or has more than 5 commas or periods.
ValidatorOnStripped ==
    call.fn = "_is_valid_value" =>
        /\ call.result \in BOOLEAN
        /\ call.result = ~Rejects(call.args[1], strip(call.args[1]), call.args[2])

\* A value of 101 characters, 100 of them without the space at its start,
\* accepted under max_length 100.
StrippedFits ==
    /\ call.fn = "_is_valid_value"
    /\ call.args = <<<<" ">> \o Repeat("a", 100), DefaultMaxLength>>
    /\ call.result = TRUE

\* What each rule of label gives on text by itself: its accepted value, or
\* None when it does not match or its formatter gives nothing accepted.
RuleValues(label, text) ==
    [k \in 1..Len(patterns[label]) |->
        RuleValue(patterns[label][k], re_search(patterns[label][k], lower(text), TRUE))]

\* C12: the value extract_specs_from_text gives a label is that of the first
\* rule, in list order, that gives an accepted value, whatever the later
\* rules give; and while the cap is not reached a label without a value
\* has no rule that gives one.
FirstRuleWins ==
    call.fn = "extract_specs_from_text" =>
        /\ \A n \in 1..Len(call.result) :
               LET values == RuleValues(call.result[n].label, call.args[1])
               IN \E k \in 1..Len(values) :
                      /\ values[k] = call.result[n].value
                      /\ \A j \in 1..(k - 1) : values[j] = None
        /\ Len(call.result) < call.args[2] =>
               \A n \in 1..Len(Labels) :
                   Labels[n] \notin keys(call.result) =>
                       \A k \in 1..Len(patterns[Labels[n]]) :
                           RuleValues(Labels[n], call.args[1])[k] = None

\* A text on which the "made of" rule matches and gives no value, Material
\* coming from the rule of the fixed words.
MaterialFellThrough ==
    /\ call.fn = "extract_specs_from_text"
    /\ call.args[1] = Chars("Made of the best. Glass bowl")
    /\ re_search(patterns["Material"][1], lower(call.args[1]), TRUE).ok
    /\ RuleValues("Material", call.args[1])[1] = None
    /\ "Material" \in keys(call.result)
    /\ Get(call.result, "Material") = Chars("Glass")

\* The pairs the feature step gets when all_specs holds n entries.
AskedFeatures(body, n) == KeyFeatures[body][Min(2, 5 - n)]
\* The phrase of the last pair of features with this label.
LastPhrase(features, label) ==
    features[CHOOSE k \in 1..Len(features) :
                 /\ features[k].label = label
                 /\ \A j \in (k + 1)..Len(features) : features[j].label # label].value

\* C13: the feature step of process_row leaves all_specs alone when it holds
\* 4 entries or more (or the description is absent); otherwise it gets at
\* most min(2, 5 - count) pairs, adds their labels, each with the phrase of
\* the last pair of that label, and changes nothing else. A result holding a
\* Feature or Included entry holds at most 5 entries.
FeatureGating ==
    [][pc = "features" =>
          /\ (Len(all_specs) >= 4 \/ ~notna(row.BodyHTML)) => all_specs' = all_specs
          /\ (Len(all_specs) < 4 /\ notna(row.BodyHTML)) =>
                 LET features == AskedFeatures(row.BodyHTML, Len(all_specs))
                 IN /\ Len(features) <= Min(2, 5 - Len(all_specs))
                    /\ keys(all_specs') = keys(all_specs) \cup keys(features)
                    /\ \A l \in keys(features) :
                           Get(all_specs', l) = LastPhrase(features, l)
                    /\ \A l \in keys(all_specs) \ keys(features) :
                           Get(all_specs', l) = Get(all_specs, l)
          /\ ({"Feature", "Included"} \cap keys(all_specs') # {}) => Len(all_specs') <= 5]_vars

\* A row whose description gives two Feature pairs of different phrases, the
\* result holding the later one.
LaterFeatureStored ==
    /\ pc = "return"
    /\ notna(row.BodyHTML)
    /\ Len(KeyFeatures[row.BodyHTML][2]) = 2
    /\ KeyFeatures[row.BodyHTML][2][1].label = "Feature"
    /\ KeyFeatures[row.BodyHTML][2][2].label = "Feature"
    /\ KeyFeatures[row.BodyHTML][2][1].value # KeyFeatures[row.BodyHTML][2][2].value
    /\ "Feature" \in keys(all_specs)
    /\ Get(all_specs, "Feature") = KeyFeatures[row.BodyHTML][2][2].value

\* The rows the loop has counted.
Counted(s) ==
    s.already_populated + s.newly_populated
    + (IF "failed" \in DOMAIN s THEN s.failed ELSE s.skipped)
Processed(r) == ~(has_existing(r) /\ ~overwrite_existing)

\* C14: in the loop of either strategy the sheet changes only by writing
\* the spec field of the row at hand with a non-empty result of process_row
\* on that row, the row being one without specs or overwrite being on; a row
\* with specs under overwrite off is counted as already populated, is not
\* passed to process_row and keeps its field; a row with an empty result
\* keeps its field; each row passed adds one to exactly one of the three
\* counters, which sum to the total when the loop ends.
LoopFrame ==
    [][/\ df' # df =>
            /\ pc = "store" /\ Len(specs_json) > 0 /\ Processed(row)
            /\ returned[Len(returned)].row = row
            /\ returned[Len(returned)].specs_json = specs_json
            /\ df' = [df EXCEPT ![idx].SpecList = specs_json]
       /\ (pc = "loop" /\ idx <= Len(df) /\ ~Processed(row)) =>
            /\ returned' = returned /\ df' = df /\ pc' = "loop" /\ idx' = idx + 1
            /\ stats'.already_populated = stats.already_populated + 1
       /\ (pc = "store" /\ Len(specs_json) = 0) => df' = df
       /\ returned' # returned =>
            /\ idx <= Len(df) /\ Processed(row)
            /\ SubSeq(returned', 1, Len(returned)) = returned
            /\ Len(returned') = Len(returned) + 1
            /\ returned'[Len(returned')].row = row
       /\ Counted(stats') = Counted(stats) + (IF idx' = idx THEN 0 ELSE 1)
       /\ idx' \in {idx, idx + 1}
       /\ pc' = "saved" => Counted(stats') = stats'.total /\ Len(df') = stats'.total]_vars

\* The end of a loop with overwrite on, over a sheet with a row that had
\* specs and got none, its field kept, and a row that had specs and got new
\* ones, its field written.
KeptAndWritten ==
    /\ pc = "saved"
    /\ overwrite_existing
    /\ Len(returned) = Len(df)
    /\ \E i, j \in 1..Len(df) :
           /\ has_existing(returned[i].row)
           /\ Len(returned[i].specs_json) = 0
           /\ df[i].SpecList = returned[i].row.SpecList
           /\ has_existing(returned[j].row)
           /\ Len(returned[j].specs_json) > 0
           /\ df[j].SpecList = returned[j].specs_json
           /\ df[j].SpecList # returned[j].row.SpecList
    /\ Counted(stats) = stats.total

=============================================================================
